---- MODULE Spec2Model ----
(***************************************************************************)
(* Model of apewisdomscraper2.py: the ranking scrape, the per-ticker price *)
(* fetch, the in-memory ticker table with its sort settings, and the pure  *)
(* colour function.                                                        *)
(*                                                                         *)
(* Conventions.  A Python str is a tuple of one-character strings.  A      *)
(* Python float is an integer (the inputs are chosen so that every         *)
(* quotient the code takes is exact); -inf is a tagged key.  A colour      *)
(* intensity in [0.0, 1.0] is counted in twentieths (FullIntensity = 1.0). *)
(* A Python dict is the sequence of its (key, value) items in insertion    *)
(* order.  None is a record with ok = FALSE.                               *)
(***************************************************************************)
EXTENDS Integers, Sequences, FiniteSets, TLC

VARIABLES
    pc,                \* "start" (create_ui before its first update_data), "loop", "crashed"
    ticker_data,       \* global ticker_data: items in insertion order
    last_update_time,  \* global last_update_time: "Never" or "time"
    current_sort,      \* global current_sort: [field, reverse]
    status_text,       \* value of the "status_text" widget
    loading_wheel,     \* whether the "loading_wheel" widget is shown
    ticker_list,       \* children of the "ticker_list" window, as refresh_ui left them
    last_call,         \* the handler or query that ran last, with what it saw and returned
    percentage,        \* argument of the colour function under test
    color,             \* result of the colour function under test
    page,              \* ranking page under test
    ranking            \* result of parsing the page under test

vars == <<pc, ticker_data, last_update_time, current_sort, status_text,
          loading_wheel, ticker_list, last_call, percentage, color, page, ranking>>

(***************************************************************************)
(* Bounds of the model.                                                    *)
(***************************************************************************)
MaxGroups == 2        \* groups of cells on a page fetched by update_data
MaxViewGroups == 3    \* groups of cells on the page behind a sorted view
MaxPageGroups == 11   \* groups of cells on a page handed to the parser alone
MaxPercentage == 45   \* largest |percentage| handed to the colour function

(***************************************************************************)
(* Program constants.                                                      *)
(***************************************************************************)
CellLimit == 30       \* find_all(...)[:30]
GroupSize == 3        \* range(0, len(raw_data), 3)
TopN == 10            \* ticker_data[:10]
Percent == 100        \* ... * 100
ColorScale == 20      \* abs(percentage) / 20.0
FullIntensity == 20   \* min(..., 1.0), in twentieths

(***************************************************************************)
(* Python str and float.                                                   *)
(***************************************************************************)
Digits == {"0", "1", "2", "3", "4", "5", "6", "7", "8", "9"}

DigitValue(c) ==
    CASE c = "0" -> 0 [] c = "1" -> 1 [] c = "2" -> 2 [] c = "3" -> 3
      [] c = "4" -> 4 [] c = "5" -> 5 [] c = "6" -> 6 [] c = "7" -> 7
      [] c = "8" -> 8 [] c = "9" -> 9

Min(a, b) == IF a < b THEN a ELSE b

Abs(x) == IF x < 0 THEN -x ELSE x

Take(s, n) == SubSeq(s, 1, Min(n, Len(s)))

\* str.isdigit(): non-empty and every character a digit
isdigit(s) == Len(s) > 0 /\ \A i \in 1..Len(s) : s[i] \in Digits

\* str.replace(old, ''): every occurrence of the character removed
RECURSIVE replace(_, _)
replace(s, old) ==
    IF s = <<>> THEN <<>>
    ELSE IF Head(s) = old THEN replace(Tail(s), old)
    ELSE <<Head(s)>> \o replace(Tail(s), old)

\* str.rstrip(chars): trailing occurrences of the character removed
RECURSIVE rstrip(_, _)
rstrip(s, ch) ==
    IF s # <<>> /\ s[Len(s)] = ch THEN rstrip(SubSeq(s, 1, Len(s) - 1), ch) ELSE s

RECURSIVE DecimalValue(_)
DecimalValue(s) ==
    IF s = <<>> THEN 0
    ELSE 10 * DecimalValue(SubSeq(s, 1, Len(s) - 1)) + DigitValue(s[Len(s)])

\* float(s): [ok |-> TRUE, val] or ValueError (ok = FALSE); an optional sign
\* followed by decimal digits is what the alphabet of the model can spell
float(s) ==
    IF isdigit(s) THEN [ok |-> TRUE, val |-> DecimalValue(s)]
    ELSE IF s # <<>> /\ s[1] = "-" /\ isdigit(Tail(s))
         THEN [ok |-> TRUE, val |-> -DecimalValue(Tail(s))]
    ELSE [ok |-> FALSE, val |-> 0]

(***************************************************************************)
(* fetch_apewisdom_data: the response is an HTTP failure or a page, given  *)
(* by the stripped texts of its td.td-right cells and of its percentage    *)
(* spans, in document order.                                               *)
(***************************************************************************)
None == [ok |-> FALSE, entries |-> <<>>]

\* raw_data = [... for div in soup.find_all("td", class_="td-right")[:30]]
raw_data_unlimited(cells) == cells

raw_data(cells) == Take(cells, CellLimit)

\* the sentiments list: an unparsable span contributes 0.0
sentiment_of(span) ==
    LET f == float(rstrip(span, "%")) IN IF f.ok THEN f.val ELSE 0

sentiments(spans) == [k \in 1..Len(spans) |-> sentiment_of(spans[k])]

\* the loop "for i in range(0, len(raw_data), 3)"; i is the 0-based index
RECURSIVE parse_groups(_, _, _, _, _)
parse_groups(raw, sents, i, sentiment_idx, acc) ==
    IF i >= Len(raw) THEN acc
    ELSE IF ~(i + 2 < Len(raw)) THEN parse_groups(raw, sents, i + GroupSize, sentiment_idx, acc)
    ELSE LET ticker == raw[i + 2]
             mentions == raw[i + 3]
         IN IF isdigit(ticker)
            THEN parse_groups(raw, sents, i + GroupSize, sentiment_idx, acc)
            ELSE LET sentiment == IF sentiment_idx < Len(sents)
                                  THEN sents[sentiment_idx + 1] ELSE 0
                 IN parse_groups(raw, sents, i + GroupSize, sentiment_idx + 1,
                        Append(acc, [ticker |-> ticker, mentions |-> mentions,
                                     sentiment_change |-> sentiment]))

fetch_apewisdom_data(response) ==
    IF ~response.ok THEN None
    ELSE [ok |-> TRUE,
          entries |-> Take(parse_groups(raw_data(response.cells),
                                        sentiments(response.spans), 0, 0, <<>>), TopN)]

(***************************************************************************)
(* fetch_stock_data: the provider answers a symbol with an exception or    *)
(* with the rows of its history (their closing prices).                    *)
(***************************************************************************)
NoData == [ok |-> FALSE, prices |-> <<>>, timestamps |-> <<>>]

fetch_stock_data(provider, ticker) ==
    LET clean_ticker == replace(ticker, "$")
        hist == provider[clean_ticker]
    IN IF hist.raises THEN NoData
       ELSE IF Len(hist.close) > 0
            THEN [ok |-> TRUE, prices |-> hist.close,
                  timestamps |-> [k \in 1..Len(hist.close) |-> k]]
       ELSE NoData

(***************************************************************************)
(* update_data: the table is a dict, so a repeated ticker overwrites its   *)
(* value in place and a new one is appended.                               *)
(***************************************************************************)
ErrorData == [error |-> TRUE, text |-> "Error fetching data"]

isinstance_str(data) == data.error

keys(d) == [k \in 1..Len(d) |-> d[k][1]]

dict_set(d, key, value) ==
    IF \E k \in 1..Len(d) : d[k][1] = key
    THEN [k \in 1..Len(d) |-> IF d[k][1] = key THEN <<key, value>> ELSE d[k]]
    ELSE Append(d, <<key, value>>)

\* ((current_price - prev_price) / prev_price) * 100, for prev_price # 0; the
\* histories of the model make the quotient exact
price_change_of(prices) ==
    LET current_price == prices[Len(prices)]
        prev_price == prices[1]
    IN ((current_price - prev_price) * Percent) \div prev_price

\* the loop "for item in ape_data", from its k-th item on: the table, the
\* calls of fetch_stock_data so far with what each returned, and whether
\* ZeroDivisionError left the loop
RECURSIVE build_records(_, _, _, _, _)
build_records(ape_data, provider, k, table, fetched) ==
    IF k > Len(ape_data) THEN [table |-> table, fetched |-> fetched, raised |-> FALSE]
    ELSE LET item == ape_data[k]
             ticker == item.ticker
             got == fetch_stock_data(provider, ticker)
             asked == Append(fetched, [ticker |-> ticker, got |-> got])
         IN IF got.ok /\ got.prices # <<>> /\ got.timestamps # <<>>
            THEN IF got.prices[1] = 0
                 THEN [table |-> table, fetched |-> asked, raised |-> TRUE]
                 ELSE build_records(ape_data, provider, k + 1,
                        dict_set(table, ticker,
                                 [error |-> FALSE,
                                  prices |-> got.prices,
                                  timestamps |-> got.timestamps,
                                  price_change |-> price_change_of(got.prices),
                                  sentiment_change |-> item.sentiment_change,
                                  mentions |-> item.mentions]),
                        asked)
            ELSE build_records(ape_data, provider, k + 1,
                               dict_set(table, ticker, ErrorData), asked)

(***************************************************************************)
(* get_color_from_percentage: [r, g, b], intensities in twentieths.        *)
(***************************************************************************)
get_color_unclamped(p) ==
    IF p > 0
    THEN <<0, (Abs(p) * FullIntensity) \div ColorScale, 0>>
    ELSE <<(Abs(p) * FullIntensity) \div ColorScale, 0, 0>>

get_color_from_percentage(p) ==
    IF p > 0
    THEN LET intensity == Min((Abs(p) * FullIntensity) \div ColorScale, FullIntensity)
         IN <<0, intensity, 0>>
    ELSE LET intensity == Min((Abs(p) * FullIntensity) \div ColorScale, FullIntensity)
         IN <<intensity, 0, 0>>

(***************************************************************************)
(* sort_tickers, sorted_ticker_data.                                       *)
(***************************************************************************)
Fields == {"mentions", "price_change", "sentiment_change"}

NegInf == [inf |-> TRUE, val |-> 0]

Num(v) == [inf |-> FALSE, val |-> v]

KeyLess(a, b) == IF a.inf THEN ~b.inf ELSE ~b.inf /\ a.val < b.val

field_of(data, field) ==
    CASE field = "mentions" -> data.mentions
      [] field = "price_change" -> data.price_change
      [] field = "sentiment_change" -> data.sentiment_change

get_sort_key(item, sort) ==
    LET data == item[2]
    IN IF isinstance_str(data) THEN NegInf
       ELSE IF sort.field = "mentions"
            THEN LET f == float(replace(data.mentions, ","))
                 IN IF f.ok THEN Num(f.val) ELSE NegInf
       ELSE Num(field_of(data, sort.field))

\* x, met after every item of the sorted prefix, goes in front of e
goes_before(x, e, sort) ==
    IF sort.reverse THEN KeyLess(get_sort_key(e, sort), get_sort_key(x, sort))
    ELSE KeyLess(get_sort_key(x, sort), get_sort_key(e, sort))

insert_sorted(acc, x, sort) ==
    LET later == {j \in 1..Len(acc) : goes_before(x, acc[j], sort)}
        at == IF later = {} THEN Len(acc) + 1
              ELSE CHOOSE j \in later : \A i \in later : j <= i
    IN SubSeq(acc, 1, at - 1) \o <<x>> \o SubSeq(acc, at, Len(acc))

\* sorted(items, key=get_sort_key, reverse=...): stable in both directions
RECURSIVE sorted(_, _, _)
sorted(items, sort, acc) ==
    IF items = <<>> THEN acc
    ELSE sorted(Tail(items), sort, insert_sorted(acc, Head(items), sort))

Reversed(s) == [k \in 1..Len(s) |-> s[Len(s) + 1 - k]]

sorted_then_reversed(table, sort) ==
    IF sort.reverse
    THEN Reversed(sorted(table, [sort EXCEPT !.reverse = FALSE], <<>>))
    ELSE sorted(table, sort, <<>>)

sorted_ticker_data(table, sort) == sorted(table, sort, <<>>)

new_sort_keeps_direction(sort, field) ==
    IF sort.field = field
    THEN [field |-> sort.field, reverse |-> ~sort.reverse]
    ELSE [field |-> field, reverse |-> sort.reverse]

new_sort(sort, field) ==
    IF sort.field = field
    THEN [field |-> sort.field, reverse |-> ~sort.reverse]
    ELSE [field |-> field, reverse |-> TRUE]

(***************************************************************************)
(* refresh_ui: it rebuilds the children of "ticker_list", the three sort   *)
(* buttons first; the tree nodes are left to the presentation layer.       *)
(***************************************************************************)
refresh_ui == [buttons |-> TRUE]

(***************************************************************************)
(* get_time_since_update, get_next_ticker.                                 *)
(***************************************************************************)
get_time_since_update(t) == IF t = "Never" THEN "Never" ELSE "ago"

get_next_ticker(table, current_ticker) ==
    LET tickers == keys(table)
        found == {k \in 1..Len(tickers) : tickers[k] = current_ticker}
    IN IF found = {} THEN [ok |-> FALSE, row |-> <<>>]
       ELSE LET current_index == CHOOSE k \in found : \A j \in found : k <= j
            IN IF current_index < Len(tickers)
               THEN [ok |-> TRUE, row |-> <<"r", "o", "w", "_">> \o tickers[current_index + 1]]
               ELSE [ok |-> FALSE, row |-> <<>>]

(***************************************************************************)
(* update_data as a function of the two answers of the network and of the  *)
(* state it starts from: the new values of what it writes, and a record of *)
(* the call (the local ape_data, the calls of fetch_stock_data, and how    *)
(* the call ended).                                                        *)
(***************************************************************************)
update_data_clears_first(response, provider, table, time, status, list) ==
    LET ape_data == fetch_apewisdom_data(response)
    IN IF ~ape_data.ok \/ ape_data.entries = <<>>
       THEN [ticker_data |-> <<>>,
             last_update_time |-> time,
             status_text |-> "Error fetching tickers from ApeWisdom!",
             loading_wheel |-> FALSE,
             ticker_list |-> list,
             call |-> [op |-> "update_data", ape_data |-> ape_data,
                       fetched |-> <<>>, outcome |-> "aborted"]]
       ELSE LET built == build_records(ape_data.entries, provider, 1, <<>>, <<>>)
            IN IF built.raised
               THEN [ticker_data |-> built.table,
                     last_update_time |-> time,
                     status_text |-> status,
                     loading_wheel |-> TRUE,
                     ticker_list |-> list,
                     call |-> [op |-> "update_data", ape_data |-> ape_data,
                               fetched |-> built.fetched, outcome |-> "raised"]]
               ELSE [ticker_data |-> built.table,
                     last_update_time |-> "time",
                     status_text |-> status,
                     loading_wheel |-> FALSE,
                     ticker_list |-> refresh_ui,
                     call |-> [op |-> "update_data", ape_data |-> ape_data,
                               fetched |-> built.fetched, outcome |-> "done"]]

update_data(response, provider, table, time, status, list) ==
    LET ape_data == fetch_apewisdom_data(response)
    IN IF ~ape_data.ok \/ ape_data.entries = <<>>
       THEN [ticker_data |-> table,
             last_update_time |-> time,
             status_text |-> "Error fetching tickers from ApeWisdom!",
             loading_wheel |-> FALSE,
             ticker_list |-> list,
             call |-> [op |-> "update_data", ape_data |-> ape_data,
                       fetched |-> <<>>, outcome |-> "aborted"]]
       ELSE LET built == build_records(ape_data.entries, provider, 1, <<>>, <<>>)
            IN IF built.raised
               THEN [ticker_data |-> built.table,
                     last_update_time |-> time,
                     status_text |-> status,
                     loading_wheel |-> TRUE,
                     ticker_list |-> list,
                     call |-> [op |-> "update_data", ape_data |-> ape_data,
                               fetched |-> built.fetched, outcome |-> "raised"]]
               ELSE [ticker_data |-> built.table,
                     last_update_time |-> "time",
                     status_text |-> status,
                     loading_wheel |-> FALSE,
                     ticker_list |-> refresh_ui,
                     call |-> [op |-> "update_data", ape_data |-> ape_data,
                               fetched |-> built.fetched, outcome |-> "done"]]

(***************************************************************************)
(* The answers the network can give.                                       *)
(***************************************************************************)
DigitChar(d) ==
    CASE d = 0 -> "0" [] d = 1 -> "1" [] d = 2 -> "2" [] d = 3 -> "3"
      [] d = 4 -> "4" [] d = 5 -> "5" [] d = 6 -> "6" [] d = 7 -> "7"
      [] d = 8 -> "8" [] d = 9 -> "9"

RECURSIVE DecimalStr(_)
DecimalStr(n) ==
    IF n < 10 THEN <<DigitChar(n)>> ELSE DecimalStr(n \div 10) \o <<DigitChar(n % 10)>>

HttpError == [ok |-> FALSE, cells |-> <<>>, spans |-> <<>>]

\* the cells of a table of groups: rank, ticker symbol, mention count
RECURSIVE CellsOf(_, _)
CellsOf(groups, g) ==
    IF g > Len(groups) THEN <<>>
    ELSE <<DecimalStr(g), groups[g][1], groups[g][2]>> \o CellsOf(groups, g + 1)

Responses(n, tickers, mentions, spans) ==
    {HttpError} \cup
    {[ok |-> TRUE, cells |-> CellsOf(groups, 1), spans |-> sp] :
        groups \in UNION {[1..k -> tickers \X mentions] : k \in 0..n}, sp \in spans}

\* the symbols fetch_stock_data can ask for, given the ticker cells of a page
Symbols(tickers) == {replace(t, "$") : t \in {u \in tickers : ~isdigit(u)}}

MainTickers == {<<"A">>, <<"$", "B">>, <<"1">>}

Raises == [raises |-> TRUE, close |-> <<>>]

Rows(close) == [raises |-> FALSE, close |-> close]

MainMentions == {<<"7">>}

MainSpans == {<<>>}

MainHistories == {Raises, Rows(<<>>), Rows(<<0, 1>>), Rows(<<1>>), Rows(<<1, 2>>)}

MainResponses == Responses(MaxGroups, MainTickers, MainMentions, MainSpans)

MainProviders == [Symbols(MainTickers) -> MainHistories]

ViewTickers == {<<"A">>, <<"$", "B">>, <<"C">>}

ViewMentions == {<<"7">>, <<"1", ",", "0", "0", "0">>, <<"n", "/", "a">>}

ViewSpans == {<<<<"4", "%">>, <<"-", "3", "%">>, <<"4", "%">>>>}

ViewHistories == {Raises, Rows(<<1, 2>>), Rows(<<2, 1>>)}

ViewResponses == Responses(MaxViewGroups, ViewTickers, ViewMentions, ViewSpans)

ViewProviders == [Symbols(ViewTickers) -> ViewHistories]

(***************************************************************************)
(* The program: create_ui loads once, then runs the frame loop, in which   *)
(* the button callbacks run one at a time.                                 *)
(***************************************************************************)
NotParsed == [parsed |-> FALSE, entries |-> <<>>]

EmptyPage == [ok |-> TRUE, cells |-> <<>>, spans |-> <<>>]

Globals ==
    /\ ticker_data = <<>>
    /\ last_update_time = "Never"
    /\ current_sort = [field |-> "mentions", reverse |-> TRUE]
    /\ status_text = "Last update: Never"
    /\ loading_wheel = FALSE
    /\ ticker_list = [buttons |-> FALSE]

Idle ==
    /\ percentage = 0
    /\ color = <<>>
    /\ page = EmptyPage
    /\ ranking = NotParsed

Init ==
    /\ pc = "start"
    /\ Globals
    /\ last_call = [op |-> "none"]
    /\ Idle

Updated_resets_sort(r) ==
    /\ ticker_data' = r.ticker_data
    /\ last_update_time' = r.last_update_time
    /\ status_text' = r.status_text
    /\ loading_wheel' = r.loading_wheel
    /\ ticker_list' = r.ticker_list
    /\ last_call' = r.call
    /\ current_sort' = [field |-> "mentions", reverse |-> TRUE]
    /\ UNCHANGED <<percentage, color, page, ranking>>

\* the writes of one update_data call
Updated(r) ==
    /\ ticker_data' = r.ticker_data
    /\ last_update_time' = r.last_update_time
    /\ status_text' = r.status_text
    /\ loading_wheel' = r.loading_wheel
    /\ ticker_list' = r.ticker_list
    /\ last_call' = r.call
    /\ UNCHANGED <<current_sort, percentage, color, page, ranking>>

\* create_ui: "Trigger initial data load"; an exception ends the program
InitialLoad(response, provider) ==
    /\ pc = "start"
    /\ LET r == update_data(response, provider, ticker_data, last_update_time,
                            status_text, ticker_list)
       IN /\ Updated(r)
          /\ pc' = IF r.call.outcome = "raised" THEN "crashed" ELSE "loop"

\* the "Manual Update" button; an exception in a callback is printed and the
\* loop goes on
ManualUpdate(response, provider) ==
    /\ pc = "loop"
    /\ Updated(update_data(response, provider, ticker_data, last_update_time,
                           status_text, ticker_list))
    /\ pc' = pc

\* the three sort buttons, which refresh_ui creates
sort_tickers(field) ==
    /\ pc = "loop"
    /\ ticker_list.buttons
    /\ current_sort' = new_sort(current_sort, field)
    /\ ticker_list' = refresh_ui
    /\ last_call' = [op |-> "sort_tickers", field |-> field]
    /\ UNCHANGED <<pc, ticker_data, last_update_time, status_text, loading_wheel,
                   percentage, color, page, ranking>>

\* one turn of "while dpg.is_dearpygui_running()"
Frame ==
    /\ pc = "loop"
    /\ status_text' = IF get_time_since_update(last_update_time) = "Never"
                      THEN "Last update: Never" ELSE "Last update: ago"
    /\ last_call' = [op |-> "frame"]
    /\ UNCHANGED <<pc, ticker_data, last_update_time, current_sort, loading_wheel,
                   ticker_list, percentage, color, page, ranking>>

\* a call of sorted_ticker_data() by the presentation layer
SortedView ==
    /\ pc = "loop"
    /\ last_call' = [op |-> "sorted_ticker_data",
                     ret |-> sorted_ticker_data(ticker_data, current_sort)]
    /\ UNCHANGED <<pc, ticker_data, last_update_time, current_sort, status_text,
                   loading_wheel, ticker_list, percentage, color, page, ranking>>

\* a call of get_next_ticker(current_ticker) by the presentation layer
NextTicker(current_ticker) ==
    /\ pc = "loop"
    /\ last_call' = [op |-> "get_next_ticker", arg |-> current_ticker,
                     ret |-> get_next_ticker(ticker_data, current_ticker)]
    /\ UNCHANGED <<pc, ticker_data, last_update_time, current_sort, status_text,
                   loading_wheel, ticker_list, percentage, color, page, ranking>>

Next ==
    \/ \E response \in MainResponses, provider \in MainProviders :
          InitialLoad(response, provider)
    \/ \E response \in MainResponses, provider \in MainProviders :
          ManualUpdate(response, provider)
    \/ \E field \in Fields : sort_tickers(field)
    \/ Frame
    \/ SortedView
    \/ \E t \in MainTickers : NextTicker(t)

Spec == Init /\ [][Next]_vars

(***************************************************************************)
(* The sorted views of the table that the first load can leave: create_ui  *)
(* has loaded once, from richer pages, and the sort buttons and the        *)
(* queries run.                                                            *)
(***************************************************************************)
InitView ==
    /\ pc = "loop"
    /\ current_sort = [field |-> "mentions", reverse |-> TRUE]
    /\ \E response \in ViewResponses, provider \in ViewProviders :
          LET r == update_data(response, provider, <<>>, "Never", "Last update: Never",
                               [buttons |-> FALSE])
          IN /\ r.call.outcome # "raised"
             /\ ticker_data = r.ticker_data
             /\ last_update_time = r.last_update_time
             /\ status_text = r.status_text
             /\ loading_wheel = r.loading_wheel
             /\ ticker_list = r.ticker_list
             /\ last_call = r.call
    /\ Idle

NextView ==
    \/ \E field \in Fields : sort_tickers(field)
    \/ SortedView

SpecView == InitView /\ [][NextView]_vars

(***************************************************************************)
(* The parser alone: a page grows cell by cell (rank, ticker symbol,       *)
(* mention count, rank, ...), a ticker cell being either a symbol or a     *)
(* number, and is parsed once.                                             *)
(***************************************************************************)
InitRanking ==
    /\ pc = "start"
    /\ Globals
    /\ last_call = [op |-> "none"]
    /\ percentage = 0
    /\ color = <<>>
    /\ page = EmptyPage
    /\ ranking = NotParsed

NextCell(cells, misaligned) ==
    LET g == (Len(cells) \div GroupSize) + 1
        at == Len(cells) % GroupSize
    IN CASE at = 0 -> DecimalStr(g)
         [] at = 1 -> IF misaligned THEN DecimalStr(g) ELSE <<"T">> \o DecimalStr(g)
         [] at = 2 -> DecimalStr(Percent * g)

AppendCell(misaligned) ==
    /\ ~ranking.parsed
    /\ Len(page.cells) < GroupSize * MaxPageGroups
    /\ misaligned => Len(page.cells) % GroupSize = 1
    /\ page' = [page EXCEPT !.cells = Append(@, NextCell(page.cells, misaligned))]
    /\ UNCHANGED <<pc, ticker_data, last_update_time, current_sort, status_text,
                   loading_wheel, ticker_list, last_call, percentage, color, ranking>>

ParsePage ==
    /\ ~ranking.parsed
    /\ ranking' = [parsed |-> TRUE, entries |-> fetch_apewisdom_data(page).entries]
    /\ UNCHANGED <<pc, ticker_data, last_update_time, current_sort, status_text,
                   loading_wheel, ticker_list, last_call, percentage, color, page>>

NextRanking ==
    \/ \E misaligned \in BOOLEAN : AppendCell(misaligned)
    \/ ParsePage

SpecRanking == InitRanking /\ [][NextRanking]_vars

(***************************************************************************)
(* The colour function alone.                                              *)
(***************************************************************************)
InitColor ==
    /\ pc = "start"
    /\ Globals
    /\ last_call = [op |-> "none"]
    /\ percentage \in -MaxPercentage..MaxPercentage
    /\ color = <<>>
    /\ page = EmptyPage
    /\ ranking = NotParsed

ApplyColor ==
    /\ color = <<>>
    /\ color' = get_color_from_percentage(percentage)
    /\ UNCHANGED <<pc, ticker_data, last_update_time, current_sort, status_text,
                   loading_wheel, ticker_list, last_call, percentage, page, ranking>>

NextColor == ApplyColor

SpecColor == InitColor /\ [][NextColor]_vars

(***************************************************************************)
(* Properties.                                                             *)
(***************************************************************************)
ErrorStatus == "Error fetching tickers from ApeWisdom!"

IsUpdate(call) == call.op = "update_data"

Position(table, ticker) == CHOOSE k \in 1..Len(table) : table[k][1] = ticker

HasRecord(table, ticker) == \E k \in 1..Len(table) : table[k][1] = ticker

RecordOf(table, ticker) == table[Position(table, ticker)][2]

\* C1: when the ranking fetch of an update fails or yields no entry, the
\* update aborts: the table is exactly what it was (same tickers, records and
\* order), no price fetch is made, the update time is kept and the status
\* text carries the error message.
C1_AbortKeepsGeneration ==
    [][(IsUpdate(last_call')
        /\ (~last_call'.ape_data.ok \/ last_call'.ape_data.entries = <<>>))
       => /\ last_call'.outcome = "aborted"
          /\ last_call'.fetched = <<>>
          /\ ticker_data' = ticker_data
          /\ last_update_time' = last_update_time
          /\ status_text' = ErrorStatus]_vars

C1_Witness ==
    /\ IsUpdate(last_call)
    /\ last_call.outcome = "aborted"
    /\ ~last_call.ape_data.ok
    /\ Len(ticker_data) = 2
    /\ status_text = ErrorStatus

\* the table holds exactly one record per ticker of the ranking
IsGenerationOf(table, entries) ==
    /\ \A k \in 1..Len(entries) : HasRecord(table, entries[k].ticker)
    /\ \A k \in 1..Len(table) : \E j \in 1..Len(entries) : entries[j].ticker = table[k][1]
    /\ \A i, j \in 1..Len(table) : table[i][1] = table[j][1] => i = j

\* C2: an update leaves the table either exactly as it was or holding exactly
\* one record per ticker of the new ranking, never a partly filled generation.
C2_OneGeneration ==
    [][(IsUpdate(last_call') /\ pc' = "loop")
       => \/ ticker_data' = ticker_data
          \/ IsGenerationOf(ticker_data', last_call'.ape_data.entries)]_vars

\* the k-th fetch of the call is the last one for its ticker
IsLastFetch(fetched, k) ==
    \A j \in (k + 1)..Len(fetched) : fetched[j].ticker # fetched[k].ticker

\* C3, for the series of at least 2 points: every record built by an update
\* from a series with a nonzero first price is a ValidRecord whose
\* price_change is (last - first) / first * 100; a series whose first price is
\* 0 gives an ErrorRecord, and no failure escapes the update.
C3_RecordBuilt ==
    IsUpdate(last_call) =>
        \A k \in 1..Len(last_call.fetched) :
            LET f == last_call.fetched[k]
                series == f.got.prices
            IN (f.got.ok /\ Len(series) >= 2) =>
                  IF series[1] # 0
                  THEN IsLastFetch(last_call.fetched, k) =>
                          /\ HasRecord(ticker_data, f.ticker)
                          /\ ~RecordOf(ticker_data, f.ticker).error
                          /\ RecordOf(ticker_data, f.ticker).price_change * series[1]
                               = (series[Len(series)] - series[1]) * Percent
                  ELSE /\ last_call.outcome # "raised"
                       /\ IsLastFetch(last_call.fetched, k) =>
                             /\ HasRecord(ticker_data, f.ticker)
                             /\ RecordOf(ticker_data, f.ticker).error

\* C4: an update in which a price fetch failed (returned None) still runs to
\* its end: every entry of the ranking is fetched, the failed ticker is stored
\* as an ErrorRecord, and the table has a record for every ticker of the
\* ranking.
C4_FailureNotFatal ==
    (IsUpdate(last_call) /\ \E k \in 1..Len(last_call.fetched) : ~last_call.fetched[k].got.ok)
    => /\ last_call.outcome = "done"
       /\ Len(last_call.fetched) = Len(last_call.ape_data.entries)
       /\ \A k \in 1..Len(last_call.ape_data.entries) :
             HasRecord(ticker_data, last_call.ape_data.entries[k].ticker)
       /\ \A k \in 1..Len(last_call.fetched) :
             (~last_call.fetched[k].got.ok /\ IsLastFetch(last_call.fetched, k))
             => RecordOf(ticker_data, last_call.fetched[k].ticker).error

\* C5: the sort settings change only in a sort request: an update, however it
\* ends, a frame and the two queries leave field and direction as they were.
C5_SortStateFrame ==
    [][/\ last_call'.op \in {"update_data", "frame", "sorted_ticker_data", "get_next_ticker"}
          => current_sort' = current_sort
       /\ current_sort' # current_sort => last_call'.op = "sort_tickers"]_vars

C5_Witness ==
    /\ IsUpdate(last_call)
    /\ last_call.outcome = "done"
    /\ current_sort = [field |-> "sentiment_change", reverse |-> FALSE]

\* C6: a sort request on the active field keeps the field and flips the
\* direction, so that two requests in a row on one field restore the
\* direction; a request on another field makes it the active field,
\* descending.
C6_SortRequest ==
    /\ [](\A f \in Fields :
            LET once == new_sort(current_sort, f)
                twice == new_sort(once, f)
            IN /\ twice.field = f
               /\ twice.reverse = ~once.reverse
               /\ f = current_sort.field => twice = current_sort)
    /\ [][last_call'.op = "sort_tickers"
          => IF last_call'.field = current_sort.field
             THEN current_sort' = [field |-> current_sort.field,
                                   reverse |-> ~current_sort.reverse]
             ELSE current_sort' = [field |-> last_call'.field, reverse |-> TRUE]]_vars

C6_Witness ==
    /\ last_call.op = "sort_tickers"
    /\ current_sort = [field |-> "price_change", reverse |-> FALSE]

\* C7: in a sorted view every error record comes after every ValidRecord when
\* the direction is descending, and before every ValidRecord when ascending.
C7_ErrorsExtremal ==
    last_call.op = "sorted_ticker_data" =>
        \A i, j \in 1..Len(last_call.ret) :
            (last_call.ret[i][2].error /\ ~last_call.ret[j][2].error)
            => IF current_sort.reverse THEN j < i ELSE i < j

\* the numeric key of a record under a field: the field's value, a mention
\* count being read without its thousands separators; -inf for an error
\* record and for a mention count that is no number
NumericKey(data, field) ==
    IF data.error THEN NegInf
    ELSE IF field = "price_change" THEN Num(data.price_change)
    ELSE IF field = "sentiment_change" THEN Num(data.sentiment_change)
    ELSE LET digits == SelectSeq(data.mentions, LAMBDA c : c # ",")
         IN IF digits # <<>> /\ \A k \in 1..Len(digits) : digits[k] \in Digits
            THEN Num(DecimalValue(digits)) ELSE NegInf

\* C8: the sorted view is a permutation of the table, ordered by the numeric
\* key of the active field in the requested direction, and records of equal
\* key keep their insertion order, in both directions.
C8_StableSort ==
    last_call.op = "sorted_ticker_data" =>
        LET view == last_call.ret
            key(item) == NumericKey(item[2], current_sort.field)
        IN /\ Len(view) = Len(ticker_data)
           /\ \A k \in 1..Len(ticker_data) : \E i \in 1..Len(view) : view[i] = ticker_data[k]
           /\ \A i, j \in 1..Len(view) :
                 i < j => /\ IF current_sort.reverse
                             THEN ~KeyLess(key(view[i]), key(view[j]))
                             ELSE ~KeyLess(key(view[j]), key(view[i]))
                          /\ key(view[i]) = key(view[j])
                             => Position(ticker_data, view[i][1])
                                  < Position(ticker_data, view[j][1])

C8_Witness ==
    /\ last_call.op = "sorted_ticker_data"
    /\ current_sort = [field |-> "mentions", reverse |-> TRUE]
    /\ Len(ticker_data) = 3
    /\ ~ticker_data[1][2].error /\ ticker_data[1][2].mentions = <<"7">>
    /\ ~ticker_data[2][2].error /\ ticker_data[2][2].mentions = <<"1", ",", "0", "0", "0">>
    /\ ~ticker_data[3][2].error /\ ticker_data[3][2].mentions = <<"1", ",", "0", "0", "0">>
    /\ last_call.ret = <<ticker_data[2], ticker_data[3], ticker_data[1]>>

\* the complete groups of the cells whose ticker cell is no digit string, in
\* page order
AcceptedGroups(cells) ==
    LET accepted(g) == ~isdigit(cells[GroupSize * (g - 1) + 2])
    IN SelectSeq([g \in 1..(Len(cells) \div GroupSize) |-> g], accepted)

\* the entries are the given groups of the cells, in that order
EntriesAre(entries, cells, groups) ==
    /\ Len(entries) = Len(groups)
    /\ \A k \in 1..Len(groups) :
          /\ entries[k].ticker = cells[GroupSize * (groups[k] - 1) + 2]
          /\ entries[k].mentions = cells[GroupSize * (groups[k] - 1) + 3]

\* C9, original wording: the parser returns, in page order, the first 10 accepted
\* groups of the page (all of them when the page has fewer than 10).
C9_FirstTenOfPage ==
    ranking.parsed => EntriesAre(ranking.entries, page.cells, Take(AcceptedGroups(page.cells), TopN))

\* C9: the parser reads the first 30 cells of the page only, in groups of 3,
\* rejects every group whose ticker cell is a digit string, and returns, in
\* page order, all accepted groups among those cells; the result has no
\* digit-only ticker and at most 10 entries.
C9_AcceptedOfFirstThirty ==
    ranking.parsed =>
        /\ EntriesAre(ranking.entries, page.cells, AcceptedGroups(Take(page.cells, CellLimit)))
        /\ Len(ranking.entries) <= TopN
        /\ \A k \in 1..Len(ranking.entries) : ~isdigit(ranking.entries[k].ticker)

C9_Witness ==
    /\ ranking.parsed
    /\ Len(page.cells) = GroupSize * (TopN + 1)
    /\ isdigit(page.cells[2])
    /\ ~isdigit(page.cells[GroupSize * TopN + 2])
    /\ Len(ranking.entries) = TopN - 1

\* C10: every channel of the colour is in [0, 1]; a positive percentage gives
\* (0, min(|p|/20, 1), 0) and any other (min(|p|/20, 1), 0, 0); so 20 gives
\* (0, 1, 0), -20 gives (1, 0, 0), 0 gives (0, 0, 0), and every percentage
\* from 20 up gives the colour of 20.
C10_Color ==
    color # <<>> =>
        LET p == percentage
            scaled == IF Abs(p) >= ColorScale THEN FullIntensity
                      ELSE (Abs(p) * FullIntensity) \div ColorScale
        IN /\ \A c \in 1..3 : color[c] \in 0..FullIntensity
           /\ p > 0 => color = <<0, scaled, 0>>
           /\ p <= 0 => color = <<scaled, 0, 0>>
           /\ p = 20 => color = <<0, FullIntensity, 0>>
           /\ p = -20 => color = <<FullIntensity, 0, 0>>
           /\ p = 0 => color = <<0, 0, 0>>
           /\ p >= 20 => color = get_color_from_percentage(20)

C10_Witness ==
    /\ percentage = 40
    /\ color = <<0, FullIntensity, 0>>

====
